---- MODULE Spec2Model ----
(***************************************************************************)
(* BTC futures volume monitor: the Sample store (table "volumes"), the     *)
(* change detector window_change_pct and the poll loop monitor_loop of     *)
(* btc_futures_volume_monitor.py, with the adapters of exchanges.py as     *)
(* nondeterministic sources of readings.                                   *)
(*                                                                         *)
(* Numbers.  Timestamps are integer seconds.  Volumes are REAL columns and *)
(* Python floats; the model computes with exact rationals [num, den]       *)
(* (den > 0, lowest terms), so AVG and the percentage are the exact values *)
(* the floating-point code approximates.                                   *)
(*                                                                         *)
(* Optional values (Python None, an SQL NULL, an empty fetchone()) are     *)
(* sequences of length 0 or 1: None is << >>, a value v is << v >>.        *)
(***************************************************************************)
EXTENDS Integers, Sequences, FiniteSets, TLC

VARIABLES
    volumes,        \* the table "volumes", rows in insertion (rowid) order
    exchanges,      \* monitor_loop: configured exchange list
    alert_pct,      \* monitor_loop: ALERT_CHANGE_PCT
    window_min,     \* monitor_loop: WINDOW_MINUTES
    poll,           \* monitor_loop: POLL_INTERVAL_SEC
    log_to_stdout,  \* monitor_loop: LOG_TO_STDOUT
    tg_token,       \* monitor_loop: TELEGRAM_BOT_TOKEN, stripped
    tg_chat,        \* monitor_loop: TELEGRAM_CHAT_ID, stripped
    pc,             \* position of monitor_loop
    ts,             \* monitor_loop: timestamp of the current cycle
    totals_usd,     \* monitor_loop: running total of the cycle
    rows,           \* monitor_loop: the readings fetched in the cycle
    i,              \* index of the "for ex in exchanges" loop
    j,              \* index of the "for r in rows" loop
    cycle,          \* history: number of cycles started
    base,           \* history: Len(volumes) when the cycle started
    fetched,        \* history: outcome of each exchange entry of the cycle
    evaluated,      \* history: the change detections run in the cycle
    alerts,         \* history: the alert messages built in the cycle
    sent,           \* history: messages handed to Telegram in the cycle
    stdout,         \* history: lines printed in the cycle
    slept,          \* history: seconds slept since the last cycle ended
    query,          \* history: last call of window_change_pct
    failed,         \* history: messages whose delivery raised in the cycle
    cause,          \* history: the event that ended the process, "" if none
    boot            \* history: rows the process found in the table when it
                    \* started, until its first sleep

vars == << volumes, exchanges, alert_pct, window_min, poll, log_to_stdout,
           tg_token, tg_chat, pc, ts, totals_usd, rows, i, j, cycle, base,
           fetched, evaluated, alerts, sent, stdout, slept, query, failed,
           cause, boot >>

-----------------------------------------------------------------------------
(* Bounds *)

\* number of poll cycles a behaviour of Spec runs
MaxCycles == 2

\* number of rows a behaviour of SpecStore appends
MaxRows == 3

\* greatest absolute value of POLL_INTERVAL_SEC a behaviour of SpecSleep
\* starts from
MaxPoll == 70

\* values int(now_utc().timestamp()) takes; the wall clock is not monotonic
Times == {0, 60, 120}

\* values of WINDOW_MINUTES used by direct calls of window_change_pct
Windows == {1, 2}

-----------------------------------------------------------------------------
(* Optional values and exact rationals *)

None == << >>

Some(v) == << v >>

Abs(n) == IF n < 0 THEN -n ELSE n

RECURSIVE GCD(_, _)
GCD(a, b) == IF b = 0 THEN a ELSE GCD(b, a % b)

\* the rational n/d, d # 0, in lowest terms with a positive denominator
Rat(n, d) ==
    LET g == GCD(Abs(n), Abs(d))
        s == IF d < 0 THEN -1 ELSE 1
    IN  [num |-> s * (n \div g), den |-> s * (d \div g)]

RInt(n) == [num |-> n, den |-> 1]

RSub(a, b) == Rat(a.num * b.den - b.num * a.den, a.den * b.den)

RMul(a, b) == Rat(a.num * b.num, a.den * b.den)

RDiv(a, b) == Rat(a.num * b.den, a.den * b.num)

RLeq(a, b) == a.num * b.den <= b.num * a.den

RAbs(a) == [num |-> Abs(a.num), den |-> a.den]

-----------------------------------------------------------------------------
(* exchanges.py *)

\* keys of EXCHANGE_FUNCS
EXCHANGE_FUNCS == {"binance", "bybit", "okx", "deribit"}

\* the dict an adapter returns: its own name and three numbers (the "raw"
\* payload is never read by the monitor)
Reading(ex, b, q, p) ==
    [exchange |-> ex, base_volume_btc |-> b, quote_volume_usd |-> q,
     last_price_usd |-> p]

\* readings an adapter can return when it does not return None; bybit and
\* okx return zeros when both payloads arrive without a ticker list
AdapterReadings(ex) ==
    CASE ex = "binance" -> {Reading(ex, 1, 100, 100), Reading(ex, 1, 130, 130),
                            Reading(ex, 1, 70, 70)}
      [] ex = "bybit"   -> {Reading(ex, 0, 0, 0), Reading(ex, 2, 100, 50)}
      [] ex = "okx"     -> {Reading(ex, 0, 0, 0), Reading(ex, 1, 100, 100)}
      [] ex = "deribit" -> {Reading(ex, 1, 100, 100)}
      [] OTHER          -> {}

-----------------------------------------------------------------------------
(* The Sample store *)

\* the table dropped and created again
ensure_db_Recreate(vol) == << >>

\* ensure_db: CREATE TABLE / CREATE INDEX IF NOT EXISTS keep the rows
ensure_db(vol) == vol

\* save_row as an upsert keyed by exchange: the row of the exchange is
\* overwritten when there is one
save_row_Upsert(vol, t, row) ==
    LET new == [ts |-> t, exchange |-> row.exchange,
                base_volume_btc |-> row.base_volume_btc,
                quote_volume_usd |-> row.quote_volume_usd]
    IN  IF \E k \in 1..Len(vol) : vol[k].exchange = row.exchange
        THEN [k \in 1..Len(vol) |->
                 IF vol[k].exchange = row.exchange THEN new ELSE vol[k]]
        ELSE Append(vol, new)

\* save_row stamping the row with the time of the insert, one second later
\* for every row already in the table
save_row_Restamp(vol, t, row) ==
    Append(vol, [ts |-> t + Len(vol), exchange |-> row.exchange,
                 base_volume_btc |-> row.base_volume_btc,
                 quote_volume_usd |-> row.quote_volume_usd])

\* save_row: INSERT one row, commit
save_row(vol, t, row) ==
    Append(vol, [ts |-> t, exchange |-> row.exchange,
                 base_volume_btc |-> row.base_volume_btc,
                 quote_volume_usd |-> row.quote_volume_usd])

\* rowids of the rows of an exchange
RowsOf(vol, exchange) == {k \in 1..Len(vol) : vol[k].exchange = exchange}

\* "SELECT ts, quote_volume_usd ... WHERE exchange=? ORDER BY ts DESC LIMIT 1"
\* followed by fetchone(): the results SQL allows.  ORDER BY ts leaves the
\* order of rows with equal ts unspecified (SQLite returns the newest rowid
\* when it walks idx_vol_ts_ex backwards and the oldest when it sorts).
SelectLast(vol, exchange) ==
    LET mine == RowsOf(vol, exchange)
        top  == {k \in mine : \A m \in mine : vol[m].ts <= vol[k].ts}
    IN  IF mine = {} THEN {None}
        ELSE {Some(<< vol[k].ts, vol[k].quote_volume_usd >>) : k \in top}

RECURSIVE SumQuote(_)
SumQuote(s) ==
    IF s = << >> THEN 0 ELSE s[1].quote_volume_usd + SumQuote(Tail(s))

\* the window without its "exchange=?"
InWindow_AnyExchange(s, exchange, cutoff, last_ts) ==
    s.ts >= cutoff /\ s.ts < last_ts

\* the window closed at its upper end: "ts<=?"
InWindow_Inclusive(s, exchange, cutoff, last_ts) ==
    s.exchange = exchange /\ s.ts >= cutoff /\ s.ts <= last_ts

\* "WHERE exchange=? AND ts>=? AND ts<?"
InWindow(s, exchange, cutoff, last_ts) ==
    s.exchange = exchange /\ s.ts >= cutoff /\ s.ts < last_ts

\* "SELECT AVG(quote_volume_usd) ..." and fetchone()[0]: NULL over no rows
SelectAvg(vol, exchange, cutoff, last_ts) ==
    LET hit == SelectSeq(vol, LAMBDA s : InWindow(s, exchange, cutoff, last_ts))
    IN  IF Len(hit) = 0 THEN None ELSE Some(Rat(SumQuote(hit), Len(hit)))

\* the difference taken the other way round
ChangePct_Swapped(last_q, avg_prev) ==
    RMul(RDiv(RSub(avg_prev, RInt(last_q)), avg_prev), RInt(100))

\* "(last_q - avg_prev) / avg_prev * 100.0"
ChangePct(last_q, avg_prev) ==
    RMul(RDiv(RSub(RInt(last_q), avg_prev), avg_prev), RInt(100))

\* the guard without "avg_prev <= 0"
NoBaseline_Falsy(avg_prev) ==
    \/ avg_prev = None
    \/ avg_prev[1].num = 0

\* "if not avg_prev or avg_prev <= 0": None, zero or negative
NoBaseline(avg_prev) ==
    \/ avg_prev = None
    \/ avg_prev[1].num = 0
    \/ RLeq(avg_prev[1], RInt(0))

\* lines 45-52 once fetchone() has produced `last`: avg_prev
AvgFrom(vol, exchange, minutes, last) ==
    IF last = None THEN None
    ELSE LET last_ts == last[1][1]
             cutoff  == last_ts - minutes * 60
         IN  SelectAvg(vol, exchange, cutoff, last_ts)

\* lines 43-55 once fetchone() has produced `last`: the value returned
ChangeFrom(vol, exchange, minutes, last) ==
    IF last = None THEN None
    ELSE LET last_q   == last[1][2]
             avg_prev == AvgFrom(vol, exchange, minutes, last)
         IN  IF NoBaseline(avg_prev) THEN None
             ELSE Some(ChangePct(last_q, avg_prev[1]))

\* window_change_pct: the calls the store allows, one per result of the
\* first SELECT, each with its locals last and avg_prev and the value
\* returned, pct
window_change_pct(vol, exchange, minutes) ==
    {[exchange |-> exchange, minutes |-> minutes, last |-> last,
      avg_prev |-> AvgFrom(vol, exchange, minutes, last),
      pct |-> ChangeFrom(vol, exchange, minutes, last)] :
        last \in SelectLast(vol, exchange)}

NoQuery ==
    [exchange |-> "", minutes |-> 0, last |-> None, avg_prev |-> None,
     pct |-> None]

-----------------------------------------------------------------------------
(* monitor_loop: configuration *)

Config(ex, a, w, p, l, tok, chat) ==
    [exchanges |-> ex, alert_pct |-> a, window_min |-> w, poll |-> p,
     log_to_stdout |-> l, tg_token |-> tok, tg_chat |-> chat]

\* the environments the behaviours start from: the list is what
\* "[e.strip() for e in ....split(",") if e.strip()]" keeps, so it may name
\* an exchange twice and may name exchanges without an adapter
Configs ==
    { Config(<< "binance", "bybit" >>, 30, 1, 60, TRUE, "token", "chat"),
      Config(<< "binance", "binance" >>, 20, 2, 0, FALSE, "token", ""),
      Config(<< "kraken", "binance" >>, 30, 2, -3, TRUE, "", "") }

\* the second argument returned as it is
Max_Second(a, b) == b

\* line 132: max(5, poll)
Max(a, b) == IF a >= b THEN a ELSE b

-----------------------------------------------------------------------------
(* monitor_loop: one poll cycle *)

Init ==
    /\ \E c \in Configs :
          /\ exchanges = c.exchanges
          /\ alert_pct = c.alert_pct
          /\ window_min = c.window_min
          /\ poll = c.poll
          /\ log_to_stdout = c.log_to_stdout
          /\ tg_token = c.tg_token
          /\ tg_chat = c.tg_chat
    /\ volumes = ensure_db(<< >>)
    /\ pc = "start"
    /\ ts = 0
    /\ totals_usd = 0
    /\ rows = << >>
    /\ i = 1
    /\ j = 1
    /\ cycle = 0
    /\ base = 0
    /\ fetched = << >>
    /\ evaluated = << >>
    /\ alerts = << >>
    /\ sent = << >>
    /\ stdout = << >>
    /\ slept = 0
    /\ query = NoQuery
    /\ failed = << >>
    /\ cause = ""
    /\ boot = 0

config == << exchanges, alert_pct, window_min, poll, log_to_stdout,
             tg_token, tg_chat >>

\* the positions of a live process in monitor_loop
Running == {"start", "loop", "fetch", "alerts"}

\* the process is gone: its locals with it; the table stays as committed
Exit(to, why) ==
    /\ pc' = to
    /\ cause' = why
    /\ ts' = 0
    /\ totals_usd' = 0
    /\ rows' = << >>
    /\ i' = 1
    /\ j' = 1
    /\ base' = Len(volumes)
    /\ fetched' = << >>
    /\ evaluated' = << >>
    /\ alerts' = << >>
    /\ sent' = << >>
    /\ stdout' = << >>
    /\ slept' = 0
    /\ query' = NoQuery
    /\ failed' = << >>
    /\ boot' = 0
    /\ UNCHANGED << config, volumes, cycle >>

\* lines 92-94: the top of "while True"
StartCycle ==
    /\ pc \in {"start", "loop"}
    /\ cycle < MaxCycles
    /\ \E now \in Times : ts' = now
    /\ totals_usd' = 0
    /\ rows' = << >>
    /\ i' = 1
    /\ pc' = "fetch"
    /\ cycle' = cycle + 1
    /\ base' = Len(volumes)
    /\ fetched' = << >>
    /\ evaluated' = << >>
    /\ alerts' = << >>
    /\ sent' = << >>
    /\ stdout' = << >>
    /\ query' = NoQuery
    /\ failed' = << >>
    /\ slept' = 0
    /\ UNCHANGED << config, volumes, j, cause, boot >>

\* the failure leaving the cycle instead of the loop pass
FetchFailed_Aborts(how) ==
    /\ pc' = "loop"
    /\ fetched' = Append(fetched, how)
    /\ UNCHANGED << config, volumes, ts, totals_usd, rows, i, j, cycle, base,
                    evaluated, alerts, sent, stdout, slept, query, failed, cause, boot >>

\* lines 104-106: "if not data": the optional log line, then continue
FetchFailed(how) ==
    /\ i' = i + 1
    /\ fetched' = Append(fetched, how)
    /\ stdout' = IF log_to_stdout
                 THEN Append(stdout, [kind |-> "failed", exchange |-> exchanges[i]])
                 ELSE stdout
    /\ UNCHANGED << config, volumes, pc, ts, totals_usd, rows, j, cycle, base,
                    evaluated, alerts, sent, slept, query, failed, cause,
                    boot >>

\* the adapter looked up with EXCHANGE_FUNCS[ex]
SkipUnknown_KeyError ==
    /\ pc = "fetch"
    /\ i <= Len(exchanges)
    /\ exchanges[i] \notin EXCHANGE_FUNCS
    /\ Exit("crashed", "KeyError")

\* lines 96-98: no adapter under this name
SkipUnknown ==
    /\ pc = "fetch"
    /\ i <= Len(exchanges)
    /\ exchanges[i] \notin EXCHANGE_FUNCS
    /\ i' = i + 1
    /\ fetched' = Append(fetched, "unknown")
    /\ UNCHANGED << config, volumes, pc, ts, totals_usd, rows, j, cycle, base,
                    evaluated, alerts, sent, stdout, slept, query, failed, cause, boot >>

\* the adapter's exception left uncaught
FetchRaises_Unhandled ==
    /\ pc = "fetch"
    /\ i <= Len(exchanges)
    /\ exchanges[i] \in EXCHANGE_FUNCS
    /\ Exit("crashed", "Exception")

\* lines 99-106: the adapter raises
FetchRaises ==
    /\ pc = "fetch"
    /\ i <= Len(exchanges)
    /\ exchanges[i] \in EXCHANGE_FUNCS
    /\ FetchFailed("raised")

\* lines 99-106: the adapter returns None
FetchEmpty ==
    /\ pc = "fetch"
    /\ i <= Len(exchanges)
    /\ exchanges[i] \in EXCHANGE_FUNCS
    /\ FetchFailed("empty")

\* lines 99-109: the adapter returns a reading
FetchOk ==
    /\ pc = "fetch"
    /\ i <= Len(exchanges)
    /\ exchanges[i] \in EXCHANGE_FUNCS
    /\ \E data \in AdapterReadings(exchanges[i]) :
          /\ rows' = Append(rows, data)
          /\ totals_usd' = totals_usd + data.quote_volume_usd
          /\ volumes' = save_row(volumes, ts, data)
    /\ i' = i + 1
    /\ fetched' = Append(fetched, "ok")
    /\ UNCHANGED << config, pc, ts, j, cycle, base, evaluated, alerts, sent,
                    stdout, slept, query, failed, cause, boot >>

\* lines 111-113: the summary line, after the last exchange
Summary ==
    /\ pc = "fetch"
    /\ i > Len(exchanges)
    /\ stdout' = IF log_to_stdout
                 THEN Append(stdout, [kind |-> "summary", parts |-> rows,
                                      total |-> totals_usd])
                 ELSE stdout
    /\ pc' = "alerts"
    /\ j' = 1
    /\ UNCHANGED << config, volumes, ts, totals_usd, rows, i, cycle, base,
                    fetched, evaluated, alerts, sent, slept, query, failed,
                    cause, boot >>

\* the comparison made strict
Exceeds_Strict(pct, threshold) == ~RLeq(RAbs(pct), RInt(threshold))

\* lines 120-126: the alert decision and the message
Exceeds(pct, threshold) == RLeq(RInt(threshold), RAbs(pct))

Message(r, pct, minutes) ==
    [exchange |-> r.exchange, pct |-> pct,
     direction |-> IF pct.num > 0 THEN "up" ELSE "down",
     minutes |-> minutes, current |-> r.quote_volume_usd,
     price |-> r.last_price_usd]

\* the guard testing the token alone
Notify_TokenOnly(msg) ==
    IF tg_token # ""
    THEN \/ sent' = Append(sent, msg) /\ failed' = failed
         \/ sent' = sent /\ failed' = Append(failed, msg)
    ELSE sent' = sent /\ failed' = failed

\* lines 57-62, 127-128: telegram_notify posts or fails silently
Notify(msg) ==
    IF tg_token # "" /\ tg_chat # ""
    THEN \/ sent' = Append(sent, msg) /\ failed' = failed
         \/ sent' = sent /\ failed' = Append(failed, msg)
    ELSE sent' = sent /\ failed' = failed

\* telegram_notify without its try/except: a failed post ends the process
Detect_Unguarded ==
    /\ pc = "alerts"
    /\ j <= Len(rows)
    /\ \E call \in window_change_pct(volumes, rows[j].exchange, window_min) :
          IF call.pct # None /\ Exceeds(call.pct[1], alert_pct)
          THEN LET msg == Message(rows[j], call.pct[1], window_min)
               IN  \/ /\ tg_token # "" /\ tg_chat # ""
                      /\ Exit("crashed", "requests.RequestException")
                   \/ /\ query' = call
                      /\ evaluated' = Append(evaluated, call)
                      /\ alerts' = Append(alerts, msg)
                      /\ sent' = IF tg_token # "" /\ tg_chat # ""
                                 THEN Append(sent, msg) ELSE sent
                      /\ stdout' = IF log_to_stdout
                                   THEN Append(stdout, [kind |-> "alert", msg |-> msg])
                                   ELSE stdout
                      /\ j' = j + 1
                      /\ UNCHANGED << config, volumes, pc, ts, totals_usd, rows, i,
                                      cycle, base, fetched, slept, cause, boot,
                                      failed >>
          ELSE /\ query' = call
               /\ evaluated' = Append(evaluated, call)
               /\ j' = j + 1
               /\ UNCHANGED << config, volumes, pc, ts, totals_usd, rows, i, cycle,
                               base, fetched, slept, cause, boot, alerts, sent,
                               stdout, failed >>

\* lines 116-130: one pass of "for r in rows"
Detect ==
    /\ pc = "alerts"
    /\ j <= Len(rows)
    /\ \E call \in window_change_pct(volumes, rows[j].exchange, window_min) :
          /\ query' = call
          /\ evaluated' = Append(evaluated, call)
          /\ IF call.pct # None /\ Exceeds(call.pct[1], alert_pct)
             THEN LET msg == Message(rows[j], call.pct[1], window_min)
                  IN  /\ alerts' = Append(alerts, msg)
                      /\ Notify(msg)
                      /\ stdout' = IF log_to_stdout
                                   THEN Append(stdout, [kind |-> "alert", msg |-> msg])
                                   ELSE stdout
             ELSE UNCHANGED << alerts, sent, stdout, failed >>
    /\ j' = j + 1
    /\ UNCHANGED << config, volumes, pc, ts, totals_usd, rows, i, cycle, base,
                    fetched, slept, cause, boot >>

\* the sleep taken before the alert loop is done
Sleep_Early ==
    /\ pc = "alerts"
    /\ slept' = Max(5, poll)
    /\ pc' = "loop"
    /\ boot' = 0
    /\ UNCHANGED << config, volumes, ts, totals_usd, rows, i, j, cycle, base,
                    fetched, evaluated, alerts, sent, stdout, query, failed,
                    cause >>

\* line 132: time.sleep(max(5, poll)), after the last row
Sleep ==
    /\ pc = "alerts"
    /\ j > Len(rows)
    /\ slept' = Max(5, poll)
    /\ pc' = "loop"
    /\ boot' = 0
    /\ UNCHANGED << config, volumes, ts, totals_usd, rows, i, j, cycle, base,
                    fetched, evaluated, alerts, sent, stdout, query, failed,
                    cause >>

-----------------------------------------------------------------------------
(* monitor_loop: the ways the process ends, and the next start *)

\* lines 134-138: KeyboardInterrupt at any point of monitor_loop; the
\* "except Exception" of the adapters and of telegram_notify let it pass
Interrupt ==
    /\ pc \in Running
    /\ Exit("stopped", "KeyboardInterrupt")

\* the error of save_row caught and dropped: the reading stays in rows and
\* the loop goes on
SaveRowFails_Swallowed ==
    /\ pc = "fetch"
    /\ i <= Len(exchanges)
    /\ exchanges[i] \in EXCHANGE_FUNCS
    /\ \E data \in AdapterReadings(exchanges[i]) :
          /\ rows' = Append(rows, data)
          /\ totals_usd' = totals_usd + data.quote_volume_usd
    /\ i' = i + 1
    /\ fetched' = Append(fetched, "ok")
    /\ UNCHANGED << config, volumes, pc, ts, j, cycle, base, evaluated, alerts,
                    sent, stdout, slept, query, failed, cause, boot >>

\* line 109: save_row raises sqlite3.Error (locked, full, read-only); the
\* statement or its commit had no effect; nothing in monitor_loop or in
\* __main__ catches it
SaveRowFails ==
    /\ pc = "fetch"
    /\ i <= Len(exchanges)
    /\ exchanges[i] \in EXCHANGE_FUNCS
    /\ AdapterReadings(exchanges[i]) # {}
    /\ Exit("crashed", "sqlite3.Error")

\* line 117: a SELECT of window_change_pct raises sqlite3.Error
QueryFails ==
    /\ pc = "alerts"
    /\ j <= Len(rows)
    /\ Exit("crashed", "sqlite3.Error")

\* lines 71-89: the process is started again on the same file and
\* environment: sqlite3.connect, ensure_db
Restart ==
    /\ pc \in {"stopped", "crashed"}
    /\ volumes' = ensure_db(volumes)
    /\ pc' = "start"
    /\ cause' = ""
    /\ boot' = Len(volumes)
    /\ UNCHANGED << config, ts, totals_usd, rows, i, j, cycle, base, fetched,
                    evaluated, alerts, sent, stdout, slept, query, failed >>

\* the steps of the loop itself
Loop ==
    \/ StartCycle
    \/ SkipUnknown
    \/ FetchRaises
    \/ FetchEmpty
    \/ FetchOk
    \/ Summary
    \/ Detect
    \/ Sleep

Next ==
    \/ Loop
    \/ Interrupt
    \/ SaveRowFails
    \/ QueryFails
    \/ Restart

Spec == Init /\ [][Next]_vars

\* ENABLED <<Detect>>_vars written out: window_change_pct always returns a
\* result, so a reading left in rows is all the step needs
DetectEnabled == pc = "alerts" /\ j <= Len(rows)

\* the interpreter keeps running the single thread of monitor_loop: weak
\* fairness of every step of the loop, the one of Detect stated through
\* DetectEnabled
SpecFair ==
    /\ Spec
    /\ WF_vars(StartCycle \/ SkipUnknown \/ FetchRaises \/ FetchEmpty \/ FetchOk
               \/ Summary \/ Sleep)
    /\ ([]<>(~DetectEnabled) \/ []<><<Detect>>_vars)

-----------------------------------------------------------------------------
(* The sleep of monitor_loop under every poll interval: the end of a first  *)
(* cycle whose only adapter raised, then time.sleep(max(5, poll))           *)

\* values int(os.environ.get("POLL_INTERVAL_SEC", "60")) takes
Polls == (0 - MaxPoll)..MaxPoll

InitSleep ==
    /\ exchanges = << "binance" >>
    /\ alert_pct = 20
    /\ window_min = 15
    /\ poll \in Polls
    /\ log_to_stdout = FALSE
    /\ tg_token = ""
    /\ tg_chat = ""
    /\ volumes = ensure_db(<< >>)
    /\ pc = "alerts"
    /\ ts = 0
    /\ totals_usd = 0
    /\ rows = << >>
    /\ i = 2
    /\ j = 1
    /\ cycle = 1
    /\ base = 0
    /\ fetched = << "raised" >>
    /\ evaluated = << >>
    /\ alerts = << >>
    /\ sent = << >>
    /\ stdout = << >>
    /\ slept = 0
    /\ query = NoQuery
    /\ failed = << >>
    /\ cause = ""
    /\ boot = 0

SpecSleep == InitSleep /\ [][Sleep]_vars

-----------------------------------------------------------------------------
(* The store and the detector called directly: any sequence of save_row     *)
(* calls, each followed by any number of window_change_pct calls            *)

\* rows handed to save_row: what the adapters return, and a negative quote
\* volume, which float() of a payload can produce
StoreRows ==
    AdapterReadings("binance") \cup {Reading("binance", 0, 0, 0),
                                     Reading("binance", 1, -100, 100),
                                     Reading("bybit", 2, 100, 50)}

StoreExchanges == {"binance", "bybit"}

InitStore ==
    /\ exchanges = << "binance", "bybit" >>
    /\ alert_pct = 30
    /\ window_min = 1
    /\ poll = 60
    /\ log_to_stdout = TRUE
    /\ tg_token = ""
    /\ tg_chat = ""
    /\ volumes = ensure_db(<< >>)
    /\ pc = "store"
    /\ ts = 0
    /\ totals_usd = 0
    /\ rows = << >>
    /\ i = 1
    /\ j = 1
    /\ cycle = 0
    /\ base = 0
    /\ fetched = << >>
    /\ evaluated = << >>
    /\ alerts = << >>
    /\ sent = << >>
    /\ stdout = << >>
    /\ slept = 0
    /\ query = NoQuery
    /\ failed = << >>
    /\ cause = ""
    /\ boot = 0

\* save_row(conn, t, row)
StoreAppend ==
    /\ pc = "store"
    /\ Len(volumes) < MaxRows
    /\ \E t \in Times, row \in StoreRows : volumes' = save_row(volumes, t, row)
    /\ query' = NoQuery
    /\ UNCHANGED << config, pc, ts, totals_usd, rows, i, j, cycle, base,
                    fetched, evaluated, alerts, sent, stdout, slept, failed,
                    cause, boot >>

\* window_change_pct(conn, exchange, minutes)
StoreQuery ==
    /\ pc = "store"
    /\ \E exchange \in StoreExchanges, minutes \in Windows :
          query' \in window_change_pct(volumes, exchange, minutes)
    /\ UNCHANGED << config, volumes, pc, ts, totals_usd, rows, i, j, cycle,
                    base, fetched, evaluated, alerts, sent, stdout, slept,
                    failed, cause, boot >>

NextStore == StoreAppend \/ StoreQuery

SpecStore == InitStore /\ [][NextStore]_vars

-----------------------------------------------------------------------------
(* Properties of the store and the detector, stated over the table itself   *)

Queried == query.exchange # ""

\* rowids of the Samples of an exchange
SamplesOf(e) == {k \in 1..Len(volumes) : volumes[k].exchange = e}

\* the greatest timestamp among the Samples of an exchange that has some
LatestTs(e) ==
    CHOOSE t \in {volumes[k].ts : k \in SamplesOf(e)} :
        \A k \in SamplesOf(e) : volumes[k].ts <= t

\* the Samples of e with cutoff <= timestamp < latest timestamp
WindowOf(e, m) ==
    {k \in SamplesOf(e) : /\ LatestTs(e) - m * 60 <= volumes[k].ts
                          /\ volumes[k].ts < LatestTs(e)}

RECURSIVE SumOver(_)
SumOver(S) ==
    IF S = {} THEN 0
    ELSE LET k == CHOOSE x \in S : TRUE
         IN  volumes[k].quote_volume_usd + SumOver(S \ {k})

\* C3: window_change_pct returns None exactly when the exchange has no
\* Sample, or no Sample of it has a timestamp in
\* [latest.timestamp - window_minutes*60, latest.timestamp), or the average
\* quote volume over that window is zero or negative; a value returned was
\* never computed by dividing by zero.
C3_AbsentExactlyWithoutBaseline ==
    Queried =>
        LET e == query.exchange
            m == query.minutes
        IN  /\ query.pct = None <=>
                  \/ SamplesOf(e) = {}
                  \/ WindowOf(e, m) = {}
                  \/ SumOver(WindowOf(e, m)) <= 0
            /\ query.pct # None =>
                  /\ query.avg_prev # None
                  /\ query.avg_prev[1].num # 0
                  /\ query.pct[1].den > 0

\* C3 witness: a call that returned None over a window that holds Samples
\* whose average is zero
C3_Witness_ZeroAverage ==
    /\ Queried
    /\ SamplesOf(query.exchange) # {}
    /\ WindowOf(query.exchange, query.minutes) # {}
    /\ SumOver(WindowOf(query.exchange, query.minutes)) = 0
    /\ query.pct = None

\* C4: the baseline of window_change_pct is the arithmetic mean of the
\* quote volumes of exactly the Samples of the exchange with
\* cutoff <= timestamp < latest.timestamp: the Sample at cutoff counts,
\* older Samples and Samples at the latest timestamp do not.
C4_BaselineIsWindowMean ==
    (Queried /\ SamplesOf(query.exchange) # {}) =>
        LET e   == query.exchange
            win == WindowOf(e, query.minutes)
        IN  /\ query.last[1][1] = LatestTs(e)
            /\ win = {} => query.avg_prev = None
            /\ win # {} =>
                  /\ query.avg_prev # None
                  /\ query.avg_prev[1].den > 0
                  /\ query.avg_prev[1].num * Cardinality(win)
                        = SumOver(win) * query.avg_prev[1].den

\* C4 witness: a call whose window holds a Sample exactly at cutoff while
\* the exchange also has an older Sample with a different quote volume and
\* a Sample at the latest timestamp whose quote volume is not the window's
C4_Witness_CutoffAndOlder ==
    /\ Queried
    /\ query.avg_prev # None
    /\ LET e  == query.exchange
           lt == LatestTs(e)
           c  == lt - query.minutes * 60
       IN  /\ \E k \in SamplesOf(e) : volumes[k].ts = c
           /\ \E k \in SamplesOf(e), m \in WindowOf(e, query.minutes) :
                 /\ volumes[k].ts < c
                 /\ volumes[k].quote_volume_usd # volumes[m].quote_volume_usd
           /\ \E k \in SamplesOf(e) :
                 /\ volumes[k].ts = lt
                 /\ volumes[k].quote_volume_usd
                       # SumOver(WindowOf(e, query.minutes))

\* C5: with a positive baseline the value returned is
\* (latest.quote_volume - average) / average * 100: positive exactly when
\* the latest quote volume is above the average, negative exactly when
\* below, zero when equal; average 100 gives +30 for 130 and -30 for 70.
C5_SignedPercentage ==
    (Queried /\ query.avg_prev # None /\ query.avg_prev[1].num > 0) =>
        LET a == query.avg_prev[1]
            q == query.last[1][2]
        IN  /\ query.pct # None
            /\ LET p == query.pct[1]
               IN  /\ p.den > 0
                   /\ p.num * a.num = 100 * (q * a.den - a.num) * p.den
                   /\ p.num > 0 <=> q * a.den > a.num
                   /\ p.num < 0 <=> q * a.den < a.num
                   /\ p.num = 0 <=> q * a.den = a.num
                   /\ (a = RInt(100) /\ q = 130) => p = RInt(30)
                   /\ (a = RInt(100) /\ q = 70) => p = RInt(-30)

\* C5 witness: a call with average 100 over two Samples and latest 70
C5_Witness_Decrease ==
    /\ Queried
    /\ query.avg_prev = Some(RInt(100))
    /\ Cardinality(WindowOf(query.exchange, query.minutes)) = 2
    /\ query.last[1][2] = 70
    /\ query.pct = Some(RInt(-30))

\* the Sample most recently appended for an exchange that has some
NewestRow(e) ==
    CHOOSE k \in SamplesOf(e) : \A m \in SamplesOf(e) : m <= k

\* C6: after any sequence of appends the latest-Sample lookup returns the
\* timestamp and quote volume of the Sample most recently appended for
\* the exchange.
C6_LatestIsNewestAppend ==
    (Queried /\ SamplesOf(query.exchange) # {}) =>
        LET k == NewestRow(query.exchange)
        IN  query.last = Some(<< volumes[k].ts, volumes[k].quote_volume_usd >>)

-----------------------------------------------------------------------------
(* Properties of the poll cycle *)

\* positions of the exchange list whose adapter returned a reading in the
\* current cycle, in list order
OkPositions ==
    SelectSeq([p \in 1..Len(fetched) |-> p], LAMBDA p : fetched[p] = "ok")

\* the Sample save_row writes for a reading under a timestamp
SampleOf(t, r) ==
    [ts |-> t, exchange |-> r.exchange, base_volume_btc |-> r.base_volume_btc,
     quote_volume_usd |-> r.quote_volume_usd]

\* the Samples appended since the cycle started
Appended == SubSeq(volumes, base + 1, Len(volumes))

\* C1: in every cycle an exchange entry whose adapter raises or returns
\* nothing appends no Sample, adds nothing to the total and gets no change
\* detection and no alert, while every entry whose adapter returned a
\* reading has it appended, counted and evaluated; a failure never ends the
\* cycle early.
C1_FailedEntriesSkipped ==
    (pc # "store" /\ cycle > 0) =>
        LET ok == OkPositions
        IN  /\ pc = "fetch" => Len(fetched) = i - 1
            /\ pc \in {"alerts", "loop"} => Len(fetched) = Len(exchanges)
            /\ Len(rows) = Len(ok)
            /\ Len(Appended) = Len(ok)
            /\ \A n \in 1..Len(ok) :
                  /\ rows[n].exchange = exchanges[ok[n]]
                  /\ Appended[n] = SampleOf(ts, rows[n])
            /\ totals_usd = SumQuote(rows)
            /\ Len(evaluated) <= Len(rows)
            /\ pc = "fetch" => evaluated = << >>
            /\ pc = "loop" => Len(evaluated) = Len(rows)
            /\ \A n \in 1..Len(evaluated) :
                  evaluated[n].exchange = rows[n].exchange
            /\ \A m \in 1..Len(alerts) : \E n \in 1..Len(evaluated) :
                  alerts[m].exchange = evaluated[n].exchange
            /\ \A e \in {exchanges[p] : p \in 1..Len(fetched)} :
                  (\A p \in 1..Len(fetched) :
                       exchanges[p] = e => fetched[p] # "ok")
                  => /\ \A n \in 1..Len(Appended) : Appended[n].exchange # e
                     /\ \A n \in 1..Len(evaluated) : evaluated[n].exchange # e
                     /\ \A n \in 1..Len(alerts) : alerts[n].exchange # e

\* C1 witness: a finished cycle in which the first adapter raised and the
\* second returned a reading that was appended, evaluated and alerted on
C1_Witness_RaisedThenOk ==
    /\ pc = "loop"
    /\ fetched = << "raised", "ok" >>
    /\ exchanges[1] # exchanges[2]
    /\ Len(Appended) = 1
    /\ Len(evaluated) = 1
    /\ Len(alerts) = 1

\* the alert decision stated on the fraction: |num/den| >= threshold
Qualifies(call) ==
    /\ call.pct # None
    /\ Abs(call.pct[1].num) >= alert_pct * call.pct[1].den

\* positions of the detections of the cycle that qualify for an alert
AlertPositions ==
    SelectSeq([n \in 1..Len(evaluated) |-> n],
              LAMBDA n : Qualifies(evaluated[n]))

\* C2: in a cycle an alert is emitted for a reading exactly when
\* window_change_pct returned a value whose absolute value is at least the
\* threshold: equality alerts, a decrease alerts like an increase, and an
\* absent result never alerts.
C2_AlertIffThresholdReached ==
    (pc # "store") =>
        LET at == AlertPositions
        IN  /\ Len(alerts) = Len(at)
            /\ \A m \in 1..Len(at) :
                  /\ alerts[m].exchange = rows[at[m]].exchange
                  /\ alerts[m].current = rows[at[m]].quote_volume_usd
                  /\ alerts[m].pct = evaluated[at[m]].pct[1]
                  /\ alerts[m].direction = "up" <=> alerts[m].pct.num > 0

\* C2 witness: a cycle with threshold 30 that alerted on a change of
\* exactly -30 and did not alert on a reading without a baseline
C2_Witness_EqualDecrease ==
    /\ pc = "loop"
    /\ alert_pct = 30
    /\ Len(evaluated) = 2
    /\ evaluated[1].pct = Some(RInt(-30))
    /\ evaluated[2].pct = None
    /\ Len(alerts) = 1
    /\ alerts[1].direction = "down"

\* C7: the store is append-only: a step leaves every Sample in place and
\* unchanged, adds at most one Sample, and adds none while change
\* detection and alerting run.
C7_AppendOnly ==
    [][/\ Len(volumes') >= Len(volumes)
       /\ Len(volumes') <= Len(volumes) + 1
       /\ SubSeq(volumes', 1, Len(volumes)) = volumes
       /\ pc = "alerts" => volumes' = volumes]_vars

\* C7 witness: a second cycle that has appended to a store holding the
\* first cycle's Samples and has run a detection that alerted
C7_Witness_SecondCycleAlert ==
    /\ cycle = 2
    /\ base >= 1
    /\ Len(volumes) > base
    /\ Len(alerts) >= 1

\* C8: all Samples appended during one cycle carry the timestamp captured
\* at the start of that cycle.
C8_OneTimestampPerCycle ==
    (pc # "store") =>
        \A n \in 1..Len(Appended) : Appended[n].ts = ts

\* C8 witness: a second cycle that appended two Samples under a timestamp
\* different from the first cycle's
C8_Witness_TwoSamplesSecondCycle ==
    /\ cycle = 2
    /\ base >= 1
    /\ Len(Appended) = 2
    /\ volumes[1].ts # ts

\* C9: no two Samples of the store share the same (timestamp, exchange)
\* pair.
C9_UniqueTimestampExchange ==
    \A k, m \in 1..Len(volumes) :
        (k # m) => ~(/\ volumes[k].ts = volumes[m].ts
                     /\ volumes[k].exchange = volumes[m].exchange)

\* C10: no cycle emits more than one alert for the same exchange.
C10_OneAlertPerExchange ==
    \A m, n \in 1..Len(alerts) :
        (m # n) => alerts[m].exchange # alerts[n].exchange

-----------------------------------------------------------------------------
(* Properties of the notifier *)

TelegramEnabled == tg_token # "" /\ tg_chat # ""

\* the "[ALERT]" lines printed in the cycle
AlertLines == SelectSeq(stdout, LAMBDA line : line.kind = "alert")

\* every alert of the cycle is printed when logging is on, none otherwise
Mirrored ==
    IF log_to_stdout
    THEN [m \in 1..Len(AlertLines) |-> AlertLines[m].msg] = alerts
    ELSE AlertLines = << >>

Ended == {"stopped", "crashed"}

\* C11: a failed alert delivery never propagates: the step in which
\* telegram_notify fails still prints the alert when logging is on, moves
\* on to the next reading and leaves the store alone; the process never
\* ends because of it; the cycle goes on to its sleep and the next cycle
\* follows, unless the process is ended by something else.
C11_NotifierFailureContained ==
    /\ [](pc # "store" =>
            /\ Mirrored
            /\ Len(sent) + Len(failed) = (IF TelegramEnabled THEN Len(alerts) ELSE 0)
            /\ (failed # << >> => pc \in {"alerts", "loop"}))
    /\ [][ /\ (pc' = "crashed" => cause' = "sqlite3.Error")
           /\ ((failed' # failed /\ failed' # << >>) =>
                   /\ volumes' = volumes
                   /\ pc' = "alerts"
                   /\ j' = j + 1
                   /\ evaluated' = Append(evaluated, query')
                   /\ alerts' = Append(alerts, failed'[Len(failed')])
                   /\ Mirrored') ]_vars
    /\ (failed # << >>) ~> (pc \in {"loop"} \cup Ended)
    /\ \A c \in 1..(MaxCycles - 1) :
          (failed # << >> /\ cycle = c) ~> (cycle = c + 1 \/ pc \in Ended)

\* C11 witness: a finished cycle with logging on in which the delivery for
\* the first of two readings failed, the alert was printed and the second
\* reading was evaluated
C11_Witness_FailedThenEvaluated ==
    /\ pc = "loop"
    /\ log_to_stdout
    /\ Len(rows) = 2
    /\ Len(failed) = 1
    /\ failed[1].exchange = rows[1].exchange
    /\ rows[1].exchange # rows[2].exchange
    /\ Len(AlertLines) >= 1
    /\ AlertLines[1].msg = failed[1]
    /\ Len(evaluated) = 2

\* C12: without a token or without a chat identifier no delivery is ever
\* attempted, while Samples are appended, alerts are decided and, when
\* logging is on, printed.
C12_NoDeliveryWithoutCredentials ==
    (pc # "store") =>
        /\ (tg_token = "" \/ tg_chat = "") => (sent = << >> /\ failed = << >>)
        /\ Len(alerts) = Len(AlertPositions)
        /\ Mirrored

\* C12 witness: a token without a chat identifier, a Sample appended and
\* an alert decided in the cycle, nothing handed to Telegram
C12_Witness_TokenWithoutChat ==
    /\ tg_token # ""
    /\ tg_chat = ""
    /\ Len(Appended) >= 1
    /\ Len(alerts) >= 1
    /\ sent = << >>
    /\ failed = << >>

\* C13: a failed store operation (the INSERT or commit of save_row, a
\* SELECT of window_change_pct) ends the process with the store's error: the
\* step leaves every Sample as it was and adds none, nothing but a new start
\* of the process follows it, and while the process runs every reading kept
\* in the cycle has its Sample, so no failed append was passed over.
C13_StoreFailurePropagates ==
    /\ [](pc \in Running => Len(rows) = Len(Appended))
    /\ [][ /\ (pc' = "crashed" =>
                  /\ pc \in {"fetch", "alerts"}
                  /\ cause' = "sqlite3.Error"
                  /\ volumes' = volumes)
           /\ (pc = "crashed" => (pc' = "start" /\ volumes' = volumes)) ]_vars

\* C13 witness: the process ended by a store error in its first cycle, after
\* the Sample of the first of two exchanges was appended
C13_Witness_CrashedAfterAppend ==
    /\ pc = "crashed"
    /\ cause = "sqlite3.Error"
    /\ cycle = 1
    /\ Len(exchanges) = 2
    /\ exchanges[1] # exchanges[2]
    /\ Len(volumes) = 1
    /\ volumes[1].exchange = exchanges[1]

\* the evaluations of the cycle are what window_change_pct returns on the
\* table as it is
OnTable ==
    \A n \in 1..Len(evaluated) :
        evaluated[n] \in window_change_pct(volumes, rows[n].exchange, window_min)

\* C14: the steps in which the process ends or starts leave the table as
\* it was, ensure_db applied once or twice to any table returns it, and the
\* first cycle after a start evaluates on a table that holds the Samples
\* found at the start.
C14_SamplesSurviveRestart ==
    /\ [](pc # "store" =>
            /\ ensure_db(volumes) = volumes
            /\ ensure_db(ensure_db(volumes)) = volumes
            /\ (pc \in {"alerts", "loop"} => OnTable)
            /\ (boot > 0 => (pc \in Running /\ boot <= base)))
    /\ [][(pc \in Ended \/ pc' \in Ended) => volumes' = volumes]_vars

\* C14 witness: the first cycle after a restart, stamped later than every
\* Sample found at the start, in which a reading was compared with a
\* baseline and alerted
C14_Witness_BaselineFromBeforeRestart ==
    /\ pc = "alerts"
    /\ boot >= 1
    /\ base = boot
    /\ \A k \in 1..boot : volumes[k].ts < ts
    /\ Len(evaluated) >= 1
    /\ evaluated[1].avg_prev # None
    /\ Len(alerts) >= 1

\* C15 as stated: the process starts with a cycle and no sleep, a sleep is
\* taken only after the last detection of a cycle, every cycle is followed
\* by the next one unless an interrupt arrives, and nothing but an interrupt
\* ends a running process.
C15_OnlyInterruptEndsLoop ==
    /\ [][ /\ (pc = "start" => pc' \in {"fetch", "stopped"})
           /\ (slept' # slept /\ slept' # 0 => pc = "alerts" /\ pc' = "loop")
           /\ (pc \in Running /\ pc' \notin Running =>
                  cause' = "KeyboardInterrupt") ]_vars
    /\ \A c \in 0..(MaxCycles - 1) :
          (pc \in Running /\ cycle = c) ~> (cycle = c + 1 \/ pc = "stopped")
    /\ (pc = "fetch") ~> (pc \in {"loop", "stopped"})

\* C15, amended: the process starts with a cycle and no sleep, a sleep is
\* taken only after the last detection of a cycle, every cycle reaches its
\* sleep and is followed by the next one unless an interrupt or a failed
\* store operation ends the process, and nothing but those two ends a
\* running process.
C15_InterruptOrStoreErrorEndsLoop ==
    /\ [][ /\ (pc = "start" => pc' \in {"fetch", "stopped"})
           /\ (slept' # slept /\ slept' # 0 => pc = "alerts" /\ pc' = "loop")
           /\ (pc \in Running /\ pc' \notin Running =>
                  \/ cause' = "KeyboardInterrupt" /\ pc' = "stopped"
                  \/ /\ cause' = "sqlite3.Error"
                     /\ pc' = "crashed"
                     /\ pc \in {"fetch", "alerts"}) ]_vars
    /\ \A c \in 0..(MaxCycles - 1) :
          (pc \in Running /\ cycle = c) ~> (cycle = c + 1 \/ pc \in Ended)
    /\ (pc = "fetch") ~> (pc = "loop" \/ pc \in Ended)

\* C15 witness: a second cycle that has reached its sleep although in it
\* one adapter raised and the delivery of the other reading's alert failed
C15_Witness_NextCycleAfterFailures ==
    /\ pc = "loop"
    /\ cycle = 2
    /\ slept = Max(5, poll)
    /\ Len(fetched) = 2
    /\ fetched[1] = "raised"
    /\ fetched[2] = "ok"
    /\ Len(failed) = 1

\* C16: after the sleep of a cycle the time slept is at least 5 seconds, is
\* the poll interval when that is 5 or more, and is 5 when the interval is
\* smaller, zero or negative.
C16_SleepIsClampedPoll ==
    (pc = "loop") =>
        /\ slept >= 5
        /\ (poll >= 5 => slept = poll)
        /\ (poll < 5 => slept = 5)

\* C16 witness: a sleep taken under a negative poll interval
C16_Witness_NegativePoll ==
    /\ pc = "loop"
    /\ poll < 0
    /\ slept = 5

\* the names of the list that have no adapter
Unknown == {exchanges[p] : p \in 1..Len(exchanges)} \ EXCHANGE_FUNCS

\* C17: the pass of the fetch loop at a name without adapter only moves to
\* the next entry (or an interrupt ends the process): it calls no adapter,
\* appends no Sample, keeps no reading and prints nothing; no Sample,
\* reading, detection, alert or log line ever carries such a name, and the
\* entries with an adapter are still all processed, in the order of the
\* list.
C17_UnknownNameSkipped ==
    /\ [](pc # "store" =>
            /\ \A p \in 1..Len(fetched) :
                  fetched[p] = "unknown" <=> exchanges[p] \in Unknown
            /\ \A k \in 1..Len(volumes) : volumes[k].exchange \notin Unknown
            /\ \A n \in 1..Len(rows) : rows[n].exchange \notin Unknown
            /\ \A n \in 1..Len(evaluated) : evaluated[n].exchange \notin Unknown
            /\ \A n \in 1..Len(alerts) : alerts[n].exchange \notin Unknown
            /\ \A n \in 1..Len(stdout) :
                  stdout[n].kind = "failed" => stdout[n].exchange \notin Unknown
            /\ (pc \in {"alerts", "loop"} => Len(fetched) = Len(exchanges))
            /\ Len(rows) = Len(OkPositions)
            /\ \A n \in 1..Len(rows) :
                  /\ exchanges[OkPositions[n]] \in EXCHANGE_FUNCS
                  /\ rows[n].exchange = exchanges[OkPositions[n]]
                  /\ n > 1 => OkPositions[n - 1] < OkPositions[n]
            /\ \A n \in 1..Len(evaluated) :
                  evaluated[n].exchange = rows[n].exchange)
    /\ [][(pc = "fetch" /\ i <= Len(exchanges) /\ exchanges[i] \in Unknown) =>
            \/ pc' = "stopped"
            \/ /\ pc' = "fetch"
               /\ i' = i + 1
               /\ fetched' = Append(fetched, "unknown")
               /\ UNCHANGED << volumes, rows, totals_usd, stdout, evaluated,
                               alerts, cause >>]_vars

\* C17 witness: a finished cycle over a list whose first name has no adapter
\* and whose second name was fetched, appended and evaluated
C17_Witness_UnknownThenKnown ==
    /\ pc = "loop"
    /\ Len(exchanges) = 2
    /\ exchanges[1] \in Unknown
    /\ fetched = << "unknown", "ok" >>
    /\ Len(Appended) = 1
    /\ Appended[1].exchange = exchanges[2]
    /\ Len(evaluated) = 1

\* C18: a Sample is appended only in the fetch loop, while no detection of
\* the cycle has run; a detection runs only after the whole list was
\* fetched, for the readings kept in this cycle and in their order, and
\* appends nothing; the sleep is taken only when every reading of the cycle
\* has its detection; a cycle starts only at process start or after the
\* sleep of the cycle before, and after a sleep nothing but the next cycle
\* (or an interrupt) follows.
C18_CyclesSequentialAndOrdered ==
    /\ [](pc # "store" =>
            /\ (pc \in {"start", "fetch"} => evaluated = << >> /\ alerts = << >>)
            /\ Len(evaluated) <= Len(rows)
            /\ Len(alerts) <= Len(evaluated)
            /\ \A n \in 1..Len(evaluated) :
                  evaluated[n].exchange = rows[n].exchange
            /\ \A n \in 1..Len(rows) : Appended[n] = SampleOf(ts, rows[n])
            /\ (pc = "alerts" =>
                  /\ Len(evaluated) = j - 1
                  /\ Len(fetched) = Len(exchanges)
                  /\ Len(Appended) = Len(rows))
            /\ (pc = "loop" => Len(evaluated) = Len(rows)))
    /\ [][ /\ (volumes' # volumes =>
                  pc = "fetch" /\ pc' = "fetch" /\ evaluated' = << >>)
           /\ ((evaluated' # evaluated /\ evaluated' # << >>) =>
                  /\ pc = "alerts"
                  /\ Len(fetched) = Len(exchanges)
                  /\ volumes' = volumes
                  /\ Len(evaluated') = Len(evaluated) + 1)
           /\ (pc' = "loop" =>
                  /\ pc = "alerts"
                  /\ j > Len(rows)
                  /\ Len(evaluated) = Len(rows)
                  /\ UNCHANGED << volumes, evaluated, alerts, sent, stdout, cycle >>)
           /\ (cycle' # cycle =>
                  /\ cycle' = cycle + 1
                  /\ pc \in {"start", "loop"}
                  /\ pc' = "fetch")
           /\ (pc = "loop" => pc' \in {"fetch", "stopped"}) ]_vars

\* C18 witness: the second cycle at its sleep, two readings of different
\* exchanges appended and then evaluated in the order they were fetched
C18_Witness_SecondCycleDone ==
    /\ pc = "loop"
    /\ cycle = 2
    /\ Len(rows) = 2
    /\ rows[1].exchange # rows[2].exchange
    /\ Len(Appended) = 2
    /\ Len(evaluated) = 2
    /\ evaluated[1].exchange = rows[1].exchange
    /\ evaluated[2].exchange = rows[2].exchange

\* C19: every detection of a cycle read, as the latest Sample of its
\* exchange, the Sample appended for its reading in this cycle: the cycle
\* timestamp and the reading's quote volume, which is the current volume an
\* alert on it reports.
C19_LatestIsThisCyclesSample ==
    (pc # "store") =>
        /\ \A n \in 1..Len(evaluated) :
              evaluated[n].last = Some(<< ts, rows[n].quote_volume_usd >>)
        /\ \A m \in 1..Len(alerts) : \E n \in 1..Len(evaluated) :
              /\ alerts[m].exchange = evaluated[n].exchange
              /\ evaluated[n].last # None
              /\ alerts[m].current = evaluated[n].last[1][2]

\* the table without the rows of other exchanges, rowid order kept
Project(vol, e) == SelectSeq(vol, LAMBDA s : s.exchange = e)

\* C20: for every exchange and window the calls window_change_pct allows on
\* the table are those it allows on the table reduced to the Samples of
\* that exchange, and appending a row of another exchange under any
\* timestamp changes none of them; the call last made returned such a
\* result, and where one Sample of the exchange holds its latest timestamp
\* the result is a single one.
C20_DependsOnlyOnOwnSamples ==
    (pc = "store") =>
        /\ \A e \in StoreExchanges, m \in Windows :
              /\ window_change_pct(volumes, e, m)
                    = window_change_pct(Project(volumes, e), e, m)
              /\ \A t \in Times, row \in StoreRows :
                    row.exchange # e =>
                        window_change_pct(save_row(volumes, t, row), e, m)
                            = window_change_pct(volumes, e, m)
              /\ (Cardinality({k \in SamplesOf(e) : volumes[k].ts = LatestTs(e)}) <= 1
                    => Cardinality(window_change_pct(volumes, e, m)) = 1)
        /\ Queried =>
              query \in window_change_pct(Project(volumes, query.exchange),
                                          query.exchange, query.minutes)

\* C20 witness: a call that returned a percentage for an exchange while a
\* Sample of another exchange, with another quote volume than the baseline,
\* has its timestamp inside the window
C20_Witness_OtherExchangeInWindow ==
    /\ pc = "store"
    /\ Queried
    /\ query.pct # None
    /\ \E k \in 1..Len(volumes) :
          /\ volumes[k].exchange # query.exchange
          /\ volumes[k].ts >= LatestTs(query.exchange) - query.minutes * 60
          /\ volumes[k].ts < LatestTs(query.exchange)
          /\ volumes[k].quote_volume_usd * query.avg_prev[1].den
                # query.avg_prev[1].num

====
